---- MODULE Spec2Model ----
(***************************************************************************)
(* PresenceRouter of synapse/events/presence_router.py.                    *)
(*                                                                         *)
(* The router holds one reference, custom_presence_router, set by the      *)
(* constructor from the homeserver configuration, and answers two calls:   *)
(* get_rooms_and_users_for_states (routeUpdates) and get_interested_users  *)
(* (getInterestedUsers).  Several calls may be in flight at once; a call   *)
(* suspends only at the await of line 91.                                  *)
(*                                                                         *)
(* Python values are modelled as tagged records, so that a dict, a set, a  *)
(* tuple, the ALL sentinel, a coroutine object and a raised exception are  *)
(* all distinct values.                                                    *)
(***************************************************************************)
EXTENDS Integers, Sequences, FiniteSets, TLC

(* ------------------------------ bounds --------------------------------- *)

\* Number of call slots: how many router calls can be in flight together.
MaxCalls == 2

\* Longest update batch handed to get_rooms_and_users_for_states.
MaxBatch == 1

(* ------------------------------ inputs --------------------------------- *)

\* Local users asking for presence (user_id of get_interested_users).
UserIds == {"alice", "bob"}

\* Presence state updates a caller can put in a batch.
Updates == {"s1", "s2"}

\* An update that no caller's batch contains (a policy may still return it).
ForeignUpdate == "s9"

Batches == UNION {[1..n -> Updates] : n \in 0..MaxBatch}

Calls == 1..MaxCalls

(* --------------------------- Python values ----------------------------- *)

\* Python's None.
None == [kind |-> "None"]

\* PresenceRouter.ALL, the sentinel of line 33.
ALL == [kind |-> "ALL"]

\* A dict, as its set of (key, value) items.
Dict(items) == [kind |-> "dict", items |-> items]

\* A set.
PySet(members) == [kind |-> "set", members |-> members]

\* A 2-tuple (room_ids_to_states, users_to_states).
Tuple2(rooms, users) == [kind |-> "tuple", rooms |-> rooms, users |-> users]

\* The coroutine object that calling an "async def" gives: its body has not
\* run; awaiting it gives `yields` (a value, or a raised exception).
Coroutine(yields) == [kind |-> "coroutine", yields |-> yields]

\* An exception in flight; origin is where it was raised.
Raised(exc, origin) == [kind |-> "error", exc |-> exc, origin |-> origin]

\* The exception a policy operation raises when it fails.
PolicyError == Raised("PolicyError", "policy")

\* Attribute lookup on the policy object failed, in the router's own code.
AttributeError == Raised("AttributeError", "router")

IsError(v) == v.kind = "error"

(* ------------------------- the policy object --------------------------- *)

\* The attribute names the router tests with hasattr or calls.
InterestNames == {"get_interested_users", "get_interested_in"}
RouteNames == {"get_users_for_states", "get_rooms_and_users_for_states"}
OpNames == InterestNames \cup RouteNames

\* What a policy operation does.  An interest operation is awaited by the
\* router (line 91), so it is a coroutine function; a routing operation is
\* called without await (line 62), so it may be a plain or an async function.
\* (A plain interest operation would make the await itself fail; policies are
\* taken to honour the awaitable the router asks for.)
InterestBehaviours == [mode : {"async"}, does : {"set", "all", "raise"}]
RouteBehaviours == [mode : {"sync", "async"}, does : {"fanout", "extra", "raise"}]

BehavioursOf(name) == IF name \in InterestNames THEN InterestBehaviours
                                                ELSE RouteBehaviours

\* The attribute tables a policy object can have: any subset of the names,
\* each bound to a deterministic operation.
PolicyOps ==
    UNION { { f \in [A -> InterestBehaviours \cup RouteBehaviours] :
                \A n \in A : f[n] \in BehavioursOf(n) } : A \in SUBSET OpNames }

Policies == { [kind |-> "module", ops |-> f] : f \in PolicyOps }

\* What running the body of a policy operation gives: a deterministic
\* function of the operation and its argument.
PolicyOutcome(beh, arg) ==
    CASE beh.does = "raise"  -> PolicyError
      [] beh.does = "set"    -> PySet(IF arg.user_id = "alice" THEN {"u1", "u2"} ELSE {})
      [] beh.does = "all"    -> ALL
      [] beh.does = "fanout" -> Tuple2(IF arg.state_updates = <<>>
                                          THEN Dict({})
                                          ELSE Dict({<<"r1", arg.state_updates>>}),
                                       Dict({}))
      [] beh.does = "extra"  -> Tuple2(Dict({}), Dict({<<"u1", <<ForeignUpdate>> >>}))

\* hasattr(obj, name)
hasattr(obj, name) == name \in DOMAIN obj.ops

\* The expression obj.name(arg): attribute lookup, then the call.  A plain
\* function runs at once; an async function only builds a coroutine object.
CallAttr(obj, name, arg) ==
    IF ~hasattr(obj, name) THEN AttributeError
    ELSE IF obj.ops[name].mode = "sync" THEN PolicyOutcome(obj.ops[name], arg)
    ELSE Coroutine(PolicyOutcome(obj.ops[name], arg))

(* ------------------------------- state --------------------------------- *)

VARIABLES
    hs,                      \* the homeserver configuration given to __init__
    custom_presence_router,  \* self.custom_presence_router
    calls                    \* the in-flight and finished calls, by slot

vars == <<hs, custom_presence_router, calls>>

\* Homeserver configurations: no module configured, or a module whose class
\* instantiates to one of the policies.
HsConfigs ==
    {[presence_router_module |-> None, presence_router_module_class |-> None]}
    \cup {[presence_router_module |-> [kind |-> "str"],
           presence_router_module_class |-> p] : p \in Policies}

\* PresenceRouter.__init__: the value given to self.custom_presence_router.
PresenceRouter_init(h) ==
    IF h.presence_router_module # None
        THEN h.presence_router_module_class
        ELSE None

NoArg == [none |-> TRUE]

IdleCall == [pc |-> "idle", op |-> "none", arg |-> NoArg, result |-> None,
             detected |-> {}, invoked |-> <<>>]

Init ==
    /\ hs \in HsConfigs
    /\ custom_presence_router = PresenceRouter_init(hs)
    /\ calls = [c \in Calls |-> IdleCall]

(* ------------------- get_rooms_and_users_for_states -------------------- *)

\* RouteBody with the default of the older single-mapping interface: one
\* empty dict instead of a pair of them.
RouteBody_SingleDict(router, arg) ==
    IF router # None
        THEN [result   |-> CallAttr(router, "get_rooms_and_users_for_states", arg),
              detected |-> {},
              invoked  |-> <<"get_rooms_and_users_for_states">>]
        ELSE [result   |-> Dict({}),
              detected |-> {},
              invoked  |-> <<>>]

\* The body of get_rooms_and_users_for_states: what it returns or raises,
\* which policy attributes it tested and which it called.
RouteBody(router, arg) ==
    IF router # None
        THEN [result   |-> CallAttr(router, "get_rooms_and_users_for_states", arg),
              detected |-> {},
              invoked  |-> <<"get_rooms_and_users_for_states">>]
        ELSE [result   |-> Tuple2(Dict({}), Dict({})),
              detected |-> {},
              invoked  |-> <<>>]

\* One call of get_rooms_and_users_for_states; it has no await, so it runs
\* to its end in one step.
get_rooms_and_users_for_states(c, state_updates) ==
    /\ calls[c].pc = "idle"
    /\ LET arg == [state_updates |-> state_updates]
           r   == RouteBody(custom_presence_router, arg)
       IN calls' = [calls EXCEPT ![c] =
                      [pc |-> "done", op |-> "get_rooms_and_users_for_states",
                       arg |-> arg, result |-> r.result,
                       detected |-> r.detected, invoked |-> r.invoked]]
    /\ UNCHANGED <<hs, custom_presence_router>>

(* ------------------------ get_interested_users ------------------------- *)

\* InterestBody with hidden per-router state: while another call is
\* suspended at the policy, the policy is not asked again and the default is
\* returned.
InterestBody_BusyGuard(router, arg) ==
    IF router # None /\ hasattr(router, "get_interested_users")
          /\ ~\E c \in Calls : calls[c].pc = "awaiting"
        THEN LET a == CallAttr(router, "get_interested_in", arg)
             IN [pc       |-> IF IsError(a) THEN "done" ELSE "awaiting",
                 result   |-> a,
                 detected |-> {"get_interested_users"},
                 invoked  |-> <<"get_interested_in">>]
    ELSE IF router # None /\ hasattr(router, "get_users_for_states")
        THEN [pc |-> "done", result |-> ALL,
              detected |-> {"get_users_for_states"}, invoked |-> <<>>]
    ELSE [pc |-> "done", result |-> Dict({}),
          detected |-> {}, invoked |-> <<>>]

\* The body of get_interested_users up to its first suspension or its end.
\* When the call suspends at the await of line 91, `result` holds the
\* awaitable it waits for.
InterestBody(router, arg) ==
    IF router # None /\ hasattr(router, "get_interested_users")
        THEN LET a == CallAttr(router, "get_interested_in", arg)
             IN [pc       |-> IF IsError(a) THEN "done" ELSE "awaiting",
                 result   |-> a,
                 detected |-> {"get_interested_users"},
                 invoked  |-> <<"get_interested_in">>]
    ELSE IF router # None /\ hasattr(router, "get_users_for_states")
        THEN [pc |-> "done", result |-> ALL,
              detected |-> {"get_users_for_states"}, invoked |-> <<>>]
    ELSE [pc |-> "done", result |-> Dict({}),
          detected |-> {}, invoked |-> <<>>]

\* A call of get_interested_users, from entry to the await of line 91 or to
\* its return.
get_interested_users(c, user_id) ==
    /\ calls[c].pc = "idle"
    /\ LET arg == [user_id |-> user_id]
           r   == InterestBody(custom_presence_router, arg)
       IN calls' = [calls EXCEPT ![c] =
                      [pc |-> r.pc, op |-> "get_interested_users",
                       arg |-> arg, result |-> r.result,
                       detected |-> r.detected, invoked |-> r.invoked]]
    /\ UNCHANGED <<hs, custom_presence_router>>

\* get_interested_users_resume with a handler that disables the policy when
\* it fails: the reference is reassigned to None on a policy error.
get_interested_users_resume_DropsPolicy(c) ==
    /\ calls[c].pc = "awaiting"
    /\ calls' = [calls EXCEPT ![c].pc = "done",
                              ![c].result = calls[c].result.yields]
    /\ custom_presence_router' =
          IF IsError(calls[c].result.yields) THEN None ELSE custom_presence_router
    /\ UNCHANGED hs

\* The await of line 91 completes: the policy's coroutine has run, and what
\* it returned is returned, what it raised propagates.
get_interested_users_resume(c) ==
    /\ calls[c].pc = "awaiting"
    /\ calls' = [calls EXCEPT ![c].pc = "done",
                              ![c].result = calls[c].result.yields]
    /\ UNCHANGED <<hs, custom_presence_router>>

\* The caller has taken the outcome of a finished call; the slot is free.
Release(c) ==
    /\ calls[c].pc = "done"
    /\ calls' = [calls EXCEPT ![c] = IdleCall]
    /\ UNCHANGED <<hs, custom_presence_router>>

Next ==
    \/ \E c \in Calls, b \in Batches : get_rooms_and_users_for_states(c, b)
    \/ \E c \in Calls, u \in UserIds : get_interested_users(c, u)
    \/ \E c \in Calls : get_interested_users_resume(c)
    \/ \E c \in Calls : Release(c)

Spec == Init /\ [][Next]_vars

(* ---------------------- vocabulary of the claims ----------------------- *)

Done(c) == calls[c].pc = "done"
IsRouteCall(c) == calls[c].op = "get_rooms_and_users_for_states"
IsInterestCall(c) == calls[c].op = "get_interested_users"
PolicyConfigured == custom_presence_router # None

\* The policy implements the routing capability: the operation that
\* get_rooms_and_users_for_states delegates to.
ImplementsRouting ==
    PolicyConfigured /\ hasattr(custom_presence_router, "get_rooms_and_users_for_states")

\* The policy implements the interest capability: the operation that
\* get_interested_users looks for.
ImplementsInterest ==
    PolicyConfigured /\ hasattr(custom_presence_router, "get_interested_users")

\* What the body of the policy's operation `name` gives for the argument of
\* call c.
PolicyGives(name, c) == PolicyOutcome(custom_presence_router.ops[name], calls[c].arg)

EmptyRouting == Tuple2(Dict({}), Dict({}))

(* ------------------------------- claims -------------------------------- *)

\* C1: with a policy configured, a finished get_rooms_and_users_for_states
\* call gives its caller exactly the pair the policy's routing operation
\* produced for that batch: nothing added, removed or wrapped.
C1_RouteReturnsPolicyResult ==
    \A c \in Calls :
        ( /\ Done(c) /\ IsRouteCall(c) /\ ImplementsRouting
          /\ ~IsError(PolicyGives("get_rooms_and_users_for_states", c)) )
        => calls[c].result = PolicyGives("get_rooms_and_users_for_states", c)

\* C2: with a policy that implements routing but not interest, a finished
\* get_interested_users call returns ALL.
C2_RoutingOnlyGivesALL ==
    \A c \in Calls :
        ( /\ Done(c) /\ IsInterestCall(c)
          /\ ImplementsRouting
          /\ \A n \in InterestNames : ~hasattr(custom_presence_router, n) )
        => calls[c].result = ALL

\* C3: with a policy that implements the interest capability, a finished
\* get_interested_users call returns exactly what the policy's interest
\* operation gave for that user id.
C3_InterestReturnsPolicyResult ==
    \A c \in Calls :
        ( /\ Done(c) /\ IsInterestCall(c) /\ ImplementsInterest
          /\ ~IsError(PolicyGives("get_interested_users", c)) )
        => calls[c].result = PolicyGives("get_interested_users", c)

\* C4: a call ends in an error only if a delegated policy operation raised
\* it; no error originates in the router's own code.
C4_NoRouterError ==
    \A c \in Calls :
        (Done(c) /\ IsError(calls[c].result)) => calls[c].result.origin = "policy"

\* C5: with no policy, or a policy that implements neither capability, a
\* finished get_interested_users call returns the empty set.
C5_DefaultInterestIsEmptySet ==
    \A c \in Calls :
        ( /\ Done(c) /\ IsInterestCall(c)
          /\ \/ ~PolicyConfigured
             \/ \A n \in OpNames : ~hasattr(custom_presence_router, n) )
        => calls[c].result = PySet({})

\* C6: with no policy, a finished get_rooms_and_users_for_states call
\* returns two empty mappings, whatever the batch, and made no policy call.
C6_NoPolicyRouteIsEmpty ==
    \A c \in Calls :
        (Done(c) /\ IsRouteCall(c) /\ ~PolicyConfigured)
        => /\ calls[c].result = EmptyRouting
           /\ calls[c].invoked = <<>>

C6_Witness ==
    \E c \in Calls :
        /\ Done(c) /\ IsRouteCall(c) /\ ~PolicyConfigured
        /\ Len(calls[c].arg.state_updates) = MaxBatch
        /\ calls[c].result = EmptyRouting

\* C7: when the policy operation a call delegates to raises, the call ends
\* with that same error, and the policy was invoked at most once.
C7_PolicyErrorPropagates ==
    \A c \in Calls :
        ( /\ Done(c) /\ PolicyConfigured
          /\ calls[c].invoked # <<>>
          /\ hasattr(custom_presence_router, calls[c].invoked[1])
          /\ PolicyGives(calls[c].invoked[1], c) = PolicyError )
        => /\ calls[c].result = PolicyError
           /\ Len(calls[c].invoked) <= 1

\* C8: the policy reference is the one the constructor set, in every state,
\* whatever calls are in flight, suspended or failed.
C8_PolicyReferenceFixed ==
    custom_presence_router = PresenceRouter_init(hs)

C8_Witness ==
    \E c1, c2 \in Calls :
        /\ PolicyConfigured
        /\ Done(c1) /\ calls[c1].result = PolicyError
        /\ calls[c2].pc = "awaiting"

C10_DetectionMatchesInvocation ==
    /\ \A c \in Calls :
          (calls[c].pc # "idle" /\ IsInterestCall(c))
          => \A i \in DOMAIN calls[c].invoked : calls[c].invoked[i] \in calls[c].detected
    /\ \A c1, c2 \in Calls :
          ( /\ calls[c1].pc # "idle" /\ IsInterestCall(c1)
            /\ calls[c1].detected \cap RouteNames # {}
            /\ Done(c2) /\ IsRouteCall(c2) /\ calls[c2].invoked # <<>> )
          => calls[c2].invoked[1] \in calls[c1].detected

====
